---- MODULE Spec2Model ----
(***************************************************************************)
(* Model of build_site.py: the menu text normalizer (clean_items), the     *)
(* meal fetcher (fetch_one), the snapshot builder (main) and the view-time *)
(* script that main writes into index.html (nowKST, ymdKorean, decideSlot  *)
(* and the fetch-then-render sequence).                                    *)
(*                                                                         *)
(* Text is a sequence of one-character strings.  The Korean literals of    *)
(* the page are written here in English, as named at each definition.      *)
(***************************************************************************)
EXTENDS Integers, Sequences, FiniteSets, TLC

VARIABLES
    raw,          \* clean_items: the raw menu string passed in
    out,          \* clean_items(raw), once computed
    out2,         \* clean_items of the joined lines of out, once computed
    pc,           \* main: position of the build run
    now,          \* main: kst_now() of the run, a civil date <<y, m, d>>
    idx,          \* main: number of fetch_one calls made so far
    resp,         \* fetch_one: the HTTP outcome the most recent call met
    ret,          \* main: what each fetch_one call returned, in call order
    meals,        \* main: the dict 'meals'
    school_name,  \* main: the local 'school_name'
    trace,        \* main: the externally visible operations, in order
    jsonFile,     \* docs/meals.json on disk
    htmlFile,     \* docs/index.html on disk
    served,       \* view time: what fetch('meals.json') delivered
    kst,          \* view time: nowKST() as <<hh, mm>>
    choice,       \* view time: the value decideSlot returned
    page          \* view time: the DOM the script leaves behind

vars == << raw, out, out2, pc, now, idx, resp, ret, meals, school_name, trace,
           jsonFile, htmlFile, served, kst, choice, page >>

normVars == << raw, out, out2 >>
buildVars == << pc, now, idx, resp, ret, meals, school_name, trace, jsonFile, htmlFile >>
viewVars == << served, kst, choice, page >>

(***************************************************************************)
(* Text helpers                                                            *)
(***************************************************************************)
Digits == {"0", "1", "2", "3", "4", "5", "6", "7", "8", "9"}

\* Python str.strip() / the "if line.strip()" test: the whitespace set
Whitespace == {" ", "\t", "\n", "\r"}

\* str.splitlines(): "\r\n" counts as one break, which differs from two breaks
\* only by an empty line, and empty lines are dropped at line 30
LineBreaks == {"\n", "\r"}

BR == << "<", "b", "r", "/", ">" >>

NL == "\n"

\* s[i..] as a sequence (empty when i > Len(s))
Tail_(s, i) == SubSeq(s, i, Len(s))

StartsWithAt(s, i, p) ==
    /\ i + Len(p) - 1 <= Len(s)
    /\ \A k \in 1..Len(p) : s[i + k - 1] = p[k]

\* the least j in i..Len(s) with s[j] \in cs, or 0
RECURSIVE FirstIn(_, _, _)
FirstIn(s, i, cs) ==
    IF i > Len(s) THEN 0
    ELSE IF s[i] \in cs THEN i
    ELSE FirstIn(s, i + 1, cs)

\* the least j in i..Len(s) with s[j] \notin cs, or 0
RECURSIVE FirstNotIn(_, _, _)
FirstNotIn(s, i, cs) ==
    IF i > Len(s) THEN 0
    ELSE IF s[i] \notin cs THEN i
    ELSE FirstNotIn(s, i + 1, cs)

(***************************************************************************)
(* clean_items, line 27: s.replace("<br/>", "\n"), leftmost first,         *)
(* non-overlapping.                                                        *)
(***************************************************************************)
RECURSIVE ReplaceBr(_, _)
ReplaceBr(s, i) ==
    IF i > Len(s) THEN << >>
    ELSE IF StartsWithAt(s, i, BR) THEN << NL >> \o ReplaceBr(s, i + Len(BR))
    ELSE << s[i] >> \o ReplaceBr(s, i + 1)

(***************************************************************************)
(* clean_items, line 28: re.sub(r"\((?:\d+\.?)+\)", "", s).                *)
(* A match that starts at i is "(", then a body, then ")".  The body uses  *)
(* only digits and dots, and ")" is neither, so the body is the whole run  *)
(* of digits and dots after the "(": it must be non-empty, begin with a    *)
(* digit and hold no two dots in a row.  AllergenEnd is the index of the   *)
(* closing ")" of the match at i, or 0 when there is none.                 *)
(***************************************************************************)
AllergenBody(s, lo, hi) ==
    /\ lo <= hi
    /\ s[lo] \in Digits
    /\ \A k \in lo..(hi - 1) : ~(s[k] = "." /\ s[k + 1] = ".")

AllergenEnd(s, i) ==
    IF i > Len(s) \/ s[i] # "(" THEN 0
    ELSE LET j == FirstNotIn(s, i + 1, Digits \cup {"."})
         IN  IF j # 0 /\ s[j] = ")" /\ AllergenBody(s, i + 1, j - 1) THEN j ELSE 0

\* one left-to-right pass; the scan resumes after each removed match
RECURSIVE SubAllergen(_, _)
SubAllergen(s, i) ==
    IF i > Len(s) THEN << >>
    ELSE LET j == AllergenEnd(s, i)
         IN  IF j # 0 THEN SubAllergen(s, j + 1)
             ELSE << s[i] >> \o SubAllergen(s, i + 1)

(***************************************************************************)
(* clean_items, line 29: re.sub(r"<[^>]*>", "", s).  [^>] matches a newline *)
(* too, so a tag may span lines.                                           *)
(***************************************************************************)
RECURSIVE SubTags(_, _)
SubTags(s, i) ==
    IF i > Len(s) THEN << >>
    ELSE LET j == IF s[i] = "<" THEN FirstIn(s, i + 1, {">"}) ELSE 0
         IN  IF j # 0 THEN SubTags(s, j + 1)
             ELSE << s[i] >> \o SubTags(s, i + 1)

(***************************************************************************)
(* clean_items, line 30: s.splitlines(), line.strip(), drop blank lines.   *)
(***************************************************************************)
RECURSIVE splitlines(_)
splitlines(s) ==
    IF s = << >> THEN << >>
    ELSE LET j == FirstIn(s, 1, LineBreaks)
         IN  IF j = 0 THEN << s >>
             ELSE << SubSeq(s, 1, j - 1) >> \o splitlines(Tail_(s, j + 1))

RECURSIVE lstrip(_)
lstrip(s) ==
    IF s # << >> /\ Head(s) \in Whitespace THEN lstrip(Tail(s)) ELSE s

RECURSIVE rstrip(_)
rstrip(s) ==
    IF s # << >> /\ s[Len(s)] \in Whitespace THEN rstrip(SubSeq(s, 1, Len(s) - 1)) ELSE s

strip(s) == rstrip(lstrip(s))

RECURSIVE StripLines(_)
StripLines(ls) ==
    IF ls = << >> THEN << >>
    ELSE LET l == strip(Head(ls))
         IN  IF l # << >> THEN << l >> \o StripLines(Tail(ls))
             ELSE StripLines(Tail(ls))

clean_items(s) ==
    IF s = << >> THEN << >>
    ELSE StripLines(splitlines(SubTags(SubAllergen(ReplaceBr(s, 1), 1), 1)))

\* "\n".join(lines)
RECURSIVE JoinLines(_)
JoinLines(ls) ==
    IF ls = << >> THEN << >>
    ELSE IF Len(ls) = 1 THEN Head(ls)
    ELSE Head(ls) \o << NL >> \o JoinLines(Tail(ls))

(***************************************************************************)
(* JSON values.  A value is [t, v]: t is its kind and v a list of strings  *)
(* (the elements of a list, or the one string of a "str").  "absent" is a  *)
(* missing key (Python: the .get default applies; JavaScript: undefined).  *)
(***************************************************************************)
Absent == [t |-> "absent", v |-> << >>]
Null == [t |-> "null", v |-> << >>]
Num == [t |-> "num", v |-> << >>]       \* a non-zero number
Str(s) == [t |-> "str", v |-> << s >>]
List(ls) == [t |-> "list", v |-> ls]

Codes == {"1", "2", "3"}

(***************************************************************************)
(* kst_now, yyyymmdd and now + timedelta(days=1): civil dates <<y, m, d>>. *)
(* The time of day of the build is not part of the state.                  *)
(***************************************************************************)
IsLeap(y) == (y % 4 = 0 /\ y % 100 # 0) \/ y % 400 = 0

DaysIn(y, m) ==
    IF m = 2 THEN (IF IsLeap(y) THEN 29 ELSE 28)
    ELSE IF m \in {4, 6, 9, 11} THEN 30 ELSE 31

NextDay(d) ==
    IF d[3] < DaysIn(d[1], d[2]) THEN << d[1], d[2], d[3] + 1 >>
    ELSE IF d[2] < 12 THEN << d[1], d[2] + 1, 1 >>
    ELSE << d[1] + 1, 1, 1 >>

DigitOf(n) == << "0", "1", "2", "3", "4", "5", "6", "7", "8", "9" >>[n + 1]

\* n written with exactly w digits, zero padded (%Y, %m, %d of strftime)
RECURSIVE Pad(_, _)
Pad(n, w) == IF w = 0 THEN << >> ELSE Pad(n \div 10, w - 1) \o << DigitOf(n % 10) >>

yyyymmdd(d) == Pad(d[1], 4) \o Pad(d[2], 2) \o Pad(d[3], 2)

\* now.strftime("%Y-%m-%d ..."): the date part of built_at_kst
built_at(d) == Pad(d[1], 4) \o << "-" >> \o Pad(d[2], 2) \o << "-" >> \o Pad(d[3], 2)

\* the dates a build may run on
BuildDates == { << 2025, 1, 1 >>, << 2025, 12, 31 >> }

(***************************************************************************)
(* fetch_one.  An HTTP outcome is [net, status, body]; a body is           *)
(* [kind, info, rows]: kind says whether the text parses as JSON and       *)
(* whether the value is an object, info what sits under the key            *)
(* "mealServiceDietInfo", rows the value of [1]["row"].  A row is          *)
(* [obj, dish, school]: whether it is an object, DDISH_NM as a JSON value, *)
(* SCHUL_NM as a string ("" when the key is missing).                      *)
(***************************************************************************)
Chars(str) ==
    CASE str = "Rice" -> << "R", "i", "c", "e" >>
      [] str = "Soup" -> << "S", "o", "u", "p" >>
      [] str = "Kimchi" -> << "K", "i", "m", "c", "h", "i" >>

\* DDISH_NM as the API sends it
RawMenu1 == Chars("Rice") \o << "(", "1", ".", "2", ".", ")" >> \o BR \o Chars("Soup")
RawMenu2 == Chars("Kimchi") \o << " ", "(", "5", ".", ")" >>

Row(dish, school) == [obj |-> TRUE, dish |-> dish, school |-> school]
ScalarRow == [obj |-> FALSE, dish |-> Absent, school |-> ""]

Body(kind, info, rows) == [kind |-> kind, info |-> info, rows |-> rows]
NoBody == Body("notjson", "absent", << >>)
RowsBody(rows) == Body("obj", "rows", rows)

Http(status, body) == [net |-> "ok", status |-> status, body |-> body]
NetError == [net |-> "error", status |-> 0, body |-> NoBody]

Responses ==
    { NetError,
      Http(404, NoBody),
      Http(500, RowsBody(<< Row(Str(RawMenu1), "A High") >>)),
      Http(300, RowsBody(<< Row(Str(RawMenu1), "A High") >>)),
      Http(200, NoBody),
      Http(200, Body("notobj", "absent", << >>)),
      Http(200, Body("obj", "short", << >>)),
      Http(200, Body("obj", "norow", << >>)),
      Http(200, Body("obj", "absent", << >>)),
      Http(200, Body("obj", "nullrows", << >>)),
      Http(200, RowsBody(<< >>)),
      Http(200, RowsBody(<< ScalarRow >>)),
      Http(200, RowsBody(<< Row(Num, "A High") >>)),
      Http(200, RowsBody(<< Row(Absent, "A High") >>)),
      Http(200, RowsBody(<< Row(Null, "A High") >>)),
      Http(200, RowsBody(<< Row(Str(RawMenu1), "A High") >>)),
      Http(200, RowsBody(<< Row(Str(RawMenu2), "B High"), Row(Str(RawMenu1), "A High") >>)) }

Returned(items, school) == [raised |-> FALSE, items |-> items, school |-> school]
Raised == [raised |-> TRUE, items |-> << >>, school |-> ""]

\* lines 50-59, the body of the try: Raised stands for an exception
fetch_try(r) ==
    IF r.net = "error" THEN Raised                              \* line 50
    ELSE IF r.status >= 400 /\ r.status < 600 THEN Raised        \* line 51
    ELSE IF r.body.kind = "notjson" THEN Raised                  \* line 52
    ELSE IF r.body.kind = "notobj" THEN Raised                   \* line 53, .get
    ELSE IF r.body.info \in {"short", "norow"} THEN Raised       \* line 53, [1]["row"]
    ELSE IF r.body.info \in {"absent", "nullrows"} \/ r.body.rows = << >>
         THEN Returned(<< >>, "")                                \* lines 54-55
    ELSE LET row == r.body.rows[1]
         IN  IF ~row.obj THEN Raised                             \* line 57, .get
             ELSE IF row.dish.t \in {"absent", "null"}
                  THEN Returned(<< >>, row.school)               \* clean_items: not s
             ELSE IF row.dish.t = "str"
                  THEN Returned(clean_items(row.dish.v[1]), row.school)
             ELSE Raised                                         \* line 27, s.replace

\* fetch_one without its except clause
fetch_one_uncaught(r) == fetch_try(r)

\* lines 49-61: except Exception returns ([], "")
fetch_one(r) ==
    IF fetch_try(r).raised THEN Returned(<< >>, "") ELSE fetch_try(r)

(***************************************************************************)
(* The snapshot.  A day record is [t, date, slots]; the parsed JSON file   *)
(* is [t, school, built, meals] with meals = [t, today, tomorrow].         *)
(***************************************************************************)
NoSlots == [c \in Codes |-> Absent]
Day(date, slots) == [t |-> "obj", date |-> date, slots |-> slots]
NoDay == [t |-> "absent", date |-> Absent, slots |-> NoSlots]
Meals(today, tomorrow) == [t |-> "obj", today |-> today, tomorrow |-> tomorrow]
NoMeals == [t |-> "absent", today |-> NoDay, tomorrow |-> NoDay]
Snapshot(school, built, m) == [t |-> "obj", school |-> school, built |-> built, meals |-> m]
NullData == [t |-> "null", school |-> "", built |-> << >>, meals |-> NoMeals]

\* "b or a": the later name wins
OrElse_later(a, b) == IF b # "" THEN b ELSE a

\* Python's "a or b" on strings
OrElse(a, b) == IF a # "" THEN a ELSE b

\* line 79: the literal after the last "or" ("school" in Korean)
Fallback == "School"

\* tomorrow's call made first
Calls_tomorrow_first ==
    << << "tomorrow", "1" >>, << "today", "1" >>, << "today", "2" >>, << "today", "3" >> >>

\* lines 72 and 77: the (day, key) of each fetch_one call, in call order
Calls == << << "today", "1" >>, << "today", "2" >>, << "today", "3" >>, << "tomorrow", "1" >> >>

\* lines 65-66: the date string passed to the call for `day`
DateOf(d, day) == IF day = "today" THEN yyyymmdd(d) ELSE yyyymmdd(NextDay(d))

\* line 69
NewMeals(d) ==
    Meals(Day(Str(DateOf(d, "today")), NoSlots), Day(Str(DateOf(d, "tomorrow")), NoSlots))

\* the key is set only when there are items
StoreItems_skip_empty(m, day, key, items) ==
    IF items = << >> THEN m
    ELSE IF day = "today"
    THEN [m EXCEPT !.today.slots[key] = List(items)]
    ELSE [m EXCEPT !.tomorrow.slots[key] = List(items)]

\* lines 74 and 78: meals[day][key] = items
StoreItems(m, day, key, items) ==
    IF day = "today"
    THEN [m EXCEPT !.today.slots[key] = List(items)]
    ELSE [m EXCEPT !.tomorrow.slots[key] = List(items)]

\* lines 75 and 79: the school name after call number n returned sch
NextSchool(cur, sch, n) ==
    IF n < Len(Calls) THEN OrElse(cur, sch)
    ELSE OrElse(OrElse(cur, sch), Fallback)

\* the snapshot a whole run on date d writes when its calls return rs
RECURSIVE MealsAfter(_, _, _)
MealsAfter(d, rs, n) ==
    IF n = 0 THEN NewMeals(d)
    ELSE StoreItems(MealsAfter(d, rs, n - 1), Calls[n][1], Calls[n][2], rs[n].items)

RECURSIVE SchoolAfter(_, _)
SchoolAfter(rs, n) ==
    IF n = 0 THEN "" ELSE NextSchool(SchoolAfter(rs, n - 1), rs[n].school, n)

SnapshotOf(d, rs) ==
    Snapshot(SchoolAfter(rs, Len(Calls)), built_at(d), MealsAfter(d, rs, Len(Calls)))

(***************************************************************************)
(* Files.  Path.write_text opens the file for writing, which truncates it, *)
(* writes the text and closes it: a file is [exists, text, len], holding   *)
(* the first len of FileChunks pieces of the serialisation of text.        *)
(***************************************************************************)
FileChunks == 2

NoFile == [exists |-> FALSE, text |-> NullData, len |-> 0]
WholeFile(data) == [exists |-> TRUE, text |-> data, len |-> FileChunks]

\* open(mode="w"): the file exists and is empty
Truncated(data) == [exists |-> TRUE, text |-> data, len |-> 0]

\* the files an earlier run left behind
PrevResults ==
    << fetch_one(NetError),
       fetch_one(Http(200, RowsBody(<< Row(Str(RawMenu2), "B High") >>))),
       fetch_one(Http(200, RowsBody(<< >>))),
       fetch_one(Http(200, RowsBody(<< Row(Str(RawMenu1), "A High") >>))) >>
PrevSnapshot == SnapshotOf(<< 2024, 12, 31 >>, PrevResults)

\* index.html is a fixed text but for its title, {school_name} at line 100
HtmlText(school) == Snapshot(school, << >>, NoMeals)

NoResp == [net |-> "none", status |-> 0, body |-> NoBody]
NoChoice == [day |-> "none", ymd |-> Absent, code |-> "0", label |-> "none"]
NotServed == [net |-> "none", status |-> 0, json |-> FALSE, data |-> NullData]

\* the DOM as index.html declares it (lines 117-123); "Meals" and "loading"
\* stand for the Korean literals of lines 117 and 121
InitialPage ==
    [ school |-> << "", "Meals" >>, built |-> << >>,
      slotLabel |-> [label |-> "loading", hh |-> << >>, mm |-> << >>],
      dateTitle |-> << >>,
      content |-> [kind |-> "blank", items |-> << >>] ]

NormIdle == raw = << >> /\ out = [done |-> FALSE, lines |-> << >>]
                        /\ out2 = [done |-> FALSE, lines |-> << >>]
ViewIdle == served = NotServed /\ kst = << 0, 0 >> /\ choice = NoChoice /\ page = InitialPage

InitBuild ==
    /\ pc = "start"
    /\ now \in BuildDates
    /\ idx = 0
    /\ resp = NoResp
    /\ ret = << >>
    /\ meals = NoMeals
    /\ school_name = ""
    /\ trace = << >>
    /\ \/ jsonFile = WholeFile(PrevSnapshot) /\ htmlFile = WholeFile(HtmlText(PrevSnapshot.school))
       \/ jsonFile = NoFile /\ htmlFile = NoFile

\* lines 64-70
Start ==
    /\ pc = "start"
    /\ meals' = NewMeals(now)
    /\ school_name' = ""
    /\ pc' = "fetch"
    /\ UNCHANGED << now, idx, resp, ret, trace, jsonFile, htmlFile >>

\* lines 72-79: one fetch_one call and the two assignments after it.  An
\* exception out of fetch_one would end main.
Fetch ==
    /\ pc = "fetch"
    /\ idx < Len(Calls)
    /\ \E r \in Responses :
        LET call == Calls[idx + 1]
            res == fetch_one(r)
        IN  /\ resp' = r
            /\ trace' = Append(trace, << "fetch", DateOf(now, call[1]), call[2] >>)
            /\ IF res.raised
               THEN /\ pc' = "aborted"
                    /\ UNCHANGED << idx, ret, meals, school_name >>
               ELSE /\ idx' = idx + 1
                    /\ ret' = Append(ret, res)
                    /\ meals' = StoreItems(meals, call[1], call[2], res.items)
                    /\ school_name' = NextSchool(school_name, res.school, idx + 1)
                    /\ pc' = IF idx + 1 = Len(Calls) THEN "write_json" ELSE "fetch"
    /\ UNCHANGED << now, jsonFile, htmlFile >>

\* lines 81-93: mkdir, json.dumps, and the open of write_text.  The locals of
\* the last fetch_one call are gone by now.
OpenJson ==
    /\ pc = "write_json"
    /\ resp' = NoResp
    /\ jsonFile' = Truncated(Snapshot(school_name, built_at(now), meals))
    /\ trace' = Append(trace, << "write", "meals.json" >>)
    /\ pc' = "json_writing"
    /\ UNCHANGED << now, idx, ret, meals, school_name, htmlFile >>

\* the write (in one piece or several) and the close
WriteJson ==
    /\ pc = "json_writing"
    /\ \E n \in (jsonFile.len + 1)..FileChunks :
        /\ jsonFile' = [jsonFile EXCEPT !.len = n]
        /\ pc' = IF n = FileChunks THEN "write_html" ELSE "json_writing"
    /\ UNCHANGED << now, idx, resp, ret, meals, school_name, trace, htmlFile >>

\* lines 96-188: the page is a fixed text but for the title, {school_name}
OpenHtml ==
    /\ pc = "write_html"
    /\ htmlFile' = Truncated(HtmlText(school_name))
    /\ trace' = Append(trace, << "write", "index.html" >>)
    /\ pc' = "html_writing"
    /\ UNCHANGED << now, idx, resp, ret, meals, school_name, jsonFile >>

WriteHtml ==
    /\ pc = "html_writing"
    /\ \E n \in (htmlFile.len + 1)..FileChunks :
        /\ htmlFile' = [htmlFile EXCEPT !.len = n]
        /\ pc' = IF n = FileChunks THEN "done" ELSE "html_writing"
    /\ UNCHANGED << now, idx, resp, ret, meals, school_name, trace, jsonFile >>

BuildStep == Start \/ Fetch \/ OpenJson \/ WriteJson \/ OpenHtml \/ WriteHtml

NextBuild ==
    \/ Start /\ UNCHANGED << normVars, viewVars >>
    \/ Fetch /\ UNCHANGED << normVars, viewVars >>
    \/ OpenJson /\ UNCHANGED << normVars, viewVars >>
    \/ WriteJson /\ UNCHANGED << normVars, viewVars >>
    \/ OpenHtml /\ UNCHANGED << normVars, viewVars >>
    \/ WriteHtml /\ UNCHANGED << normVars, viewVars >>

Init == InitBuild /\ NormIdle /\ ViewIdle

\* one run of main; each statement of a sequential program is eventually executed
SpecBuild == Init /\ [][NextBuild]_vars /\ WF_vars(NextBuild)

(***************************************************************************)
(* The view-time script of index.html (lines 129-185).                     *)
(***************************************************************************)
\* String.prototype.slice(a, b) for 0 <= a <= b
Slice(s, a, b) == SubSeq(s, a + 1, IF b < Len(s) THEN b ELSE Len(s))

\* lines 142-144; "nyeon", "wol", "il" stand for the Korean year, month and
\* day characters
ymdKorean(ymd) ==
    Slice(ymd, 0, 4) \o << "nyeon", " " >> \o Slice(ymd, 4, 6) \o << "wol", " " >>
        \o Slice(ymd, 6, Len(ymd)) \o << "il" >>

SlotChoice(day, ymd, code, label) == [day |-> day, ymd |-> ymd, code |-> code, label |-> label]

\* "<=" for "<" at the 13:00 boundary
decideSlot_inclusive(k, todayYMD, tomorrowYMD) ==
    LET minutes == k[1] * 60 + k[2]
    IN  IF minutes < 9 * 60 THEN SlotChoice("today", todayYMD, "1", "breakfast")
        ELSE IF minutes <= 13 * 60 THEN SlotChoice("today", todayYMD, "2", "lunch")
        ELSE IF minutes < 19 * 60 THEN SlotChoice("today", todayYMD, "3", "dinner")
        ELSE SlotChoice("tomorrow", tomorrowYMD, "1", "tomorrow breakfast")

\* lines 147-153; the labels stand for the Korean literals of lines 149-152
decideSlot(k, todayYMD, tomorrowYMD) ==
    LET minutes == k[1] * 60 + k[2]
    IN  IF minutes < 9 * 60 THEN SlotChoice("today", todayYMD, "1", "breakfast")
        ELSE IF minutes < 13 * 60 THEN SlotChoice("today", todayYMD, "2", "lunch")
        ELSE IF minutes < 19 * 60 THEN SlotChoice("today", todayYMD, "3", "dinner")
        ELSE SlotChoice("tomorrow", tomorrowYMD, "1", "tomorrow breakfast")

\* property reads with ?. : a missing or non-object parent gives undefined
SchoolOf(data) == IF data.t = "obj" THEN data.school ELSE ""
BuiltOf(data) == IF data.t = "obj" THEN data.built ELSE << >>
MealsOf(data) == IF data.t = "obj" THEN data.meals ELSE NoMeals
DayOf(m, day) ==
    IF m.t # "obj" THEN NoDay ELSE IF day = "today" THEN m.today ELSE m.tomorrow
DateIn(dy) == IF dy.t = "obj" THEN dy.date ELSE Absent
SlotIn(dy, code) == IF dy.t = "obj" THEN dy.slots[code] ELSE Absent

\* JavaScript falsiness, for "x || []"
Falsy(x) == x.t \in {"absent", "null"} \/ (x.t = "str" /\ x.v[1] = << >>)

\* lines 182-183; "load error" and kind "error" stand for the two messages
ErrorPage(p) ==
    [p EXCEPT !.slotLabel = [label |-> "load error", hh |-> << >>, mm |-> << >>],
              !.content = [kind |-> "error", items |-> << >>]]

\* line 178: x => `<li>${x}</li>`
Li(x) == << "<li>" >> \o x \o << "</li>" >>

\* the items in reverse order
ContentOf_reversed(items) ==
    IF items.t = "num" \/ Len(items.v) = 0
    THEN [kind |-> "empty", items |-> << >>]
    ELSE [kind |-> "list",
          items |-> [i \in 1..Len(items.v) |-> Li(items.v[Len(items.v) + 1 - i])]]

\* lines 175-180: kind "empty" is the no-menu paragraph, kind "list" the <ul>
\* around the items
ContentOf(items) ==
    IF items.t = "num" \/ Len(items.v) = 0
    THEN [kind |-> "empty", items |-> << >>]
    ELSE [kind |-> "list", items |-> [i \in 1..Len(items.v) |-> Li(items.v[i])]]

\* lines 155-184.  sv is what fetch delivered: [net, status, json, data],
\* json saying whether the body parses.  The result is the choice made (if
\* any) and the DOM left behind.
Render(sv, k) ==
    IF sv.net = "error" \/ ~sv.json                      \* lines 156-157 throw
    THEN [choice |-> NoChoice, page |-> ErrorPage(InitialPage)]
    ELSE IF sv.data.t = "null"                            \* line 159 throws
    THEN [choice |-> NoChoice, page |-> ErrorPage(InitialPage)]
    ELSE
    LET data == sv.data
        p1 == [InitialPage EXCEPT !.school = << SchoolOf(data), "Meals" >>,
                                  !.built = BuiltOf(data)]
        todayYMD == DateIn(DayOf(MealsOf(data), "today"))
        tomorrowYMD == DateIn(DayOf(MealsOf(data), "tomorrow"))
        c == decideSlot(k, todayYMD, tomorrowYMD)
        found == SlotIn(DayOf(MealsOf(data), c.day), c.code)
        items == IF Falsy(found) THEN List(<< >>) ELSE found
        p2 == [p1 EXCEPT !.slotLabel = [label |-> c.label, hh |-> Pad(k[1], 2),
                                        mm |-> Pad(k[2], 2)]]
    IN  IF c.ymd.t # "str"                                \* line 171: .slice throws
        THEN [choice |-> c, page |-> ErrorPage(p2)]
        ELSE LET p3 == [p2 EXCEPT !.dateTitle = ymdKorean(c.ymd.v[1])]
             IN  IF items.t = "str"                       \* line 178: .map throws
                 THEN [choice |-> c, page |-> ErrorPage(p3)]
                 ELSE [choice |-> c, page |-> [p3 EXCEPT !.content = ContentOf(items)]]

\* fetch('meals.json') against the file as it is on disk at that moment.
\* json.dumps followed by JSON.parse gives back the value written (strings,
\* lists and objects only); an empty or cut-off text does not parse, and a
\* missing file is answered with an error page that does not parse either.
Serve(f) ==
    [ net |-> "ok",
      status |-> IF f.exists THEN 200 ELSE 404,
      json |-> f.exists /\ f.len = FileChunks,
      data |-> IF f.exists /\ f.len = FileChunks THEN f.text ELSE NullData ]

NetFail == [net |-> "error", status |-> 0, json |-> FALSE, data |-> NullData]

\* the times of day a viewer opens the page at, <<hh, mm>>
ViewTimes == { << 8, 59 >>, << 12, 30 >>, << 13, 0 >>, << 19, 0 >> }

\* a viewer opens (or reloads) the page while the files are as they are
View ==
    /\ \E t \in ViewTimes, sv \in {Serve(jsonFile), NetFail} :
        /\ served' = sv
        /\ kst' = t
        /\ choice' = Render(sv, t).choice
        /\ page' = Render(sv, t).page
    /\ UNCHANGED << normVars, buildVars >>

Next ==
    \/ Start /\ UNCHANGED << normVars, viewVars >>
    \/ Fetch /\ UNCHANGED << normVars, viewVars >>
    \/ OpenJson /\ UNCHANGED << normVars, viewVars >>
    \/ WriteJson /\ UNCHANGED << normVars, viewVars >>
    \/ OpenHtml /\ UNCHANGED << normVars, viewVars >>
    \/ WriteHtml /\ UNCHANGED << normVars, viewVars >>
    \/ View

\* a build run with viewers loading the page at any moment
Spec == Init /\ [][Next]_vars

(***************************************************************************)
(* The script as a function of the snapshot it is given and the time.      *)
(***************************************************************************)
Parsed(data) == [net |-> "ok", status |-> 200, json |-> TRUE, data |-> data]

FullSlots == [c \in Codes |-> List(<< Chars("Rice"), Chars("Soup") >>)]

SlotShapes ==
    { NoSlots, FullSlots,
      [FullSlots EXCEPT !["1"] = List(<< >>)],
      [FullSlots EXCEPT !["2"] = Null],
      [FullSlots EXCEPT !["3"] = Num, !["1"] = Str(<< >>)] }

DateShapes == { Absent, Null, Num, Str(yyyymmdd(<< 2025, 1, 1 >>)), Str(Pad(2025, 4)) }

DayShapes == { NoDay } \cup { Day(d, sl) : d \in DateShapes, sl \in SlotShapes }

ViewInputs ==
    { NetFail, Serve(NoFile), Serve(Truncated(PrevSnapshot)),
      Parsed(NullData), Parsed([NullData EXCEPT !.t = "num"]),
      Parsed(Snapshot("A High", << >>, NoMeals)), Parsed(PrevSnapshot) }
    \cup { Parsed(Snapshot("A High", built_at(<< 2025, 1, 1 >>), Meals(td, tm))) :
             td \in DayShapes,
             tm \in { NoDay, Day(Str(yyyymmdd(<< 2025, 1, 2 >>)), FullSlots) } }

BuildIdle ==
    /\ pc = "start" /\ now = << 2025, 1, 1 >> /\ idx = 0 /\ resp = NoResp /\ ret = << >>
    /\ meals = NoMeals /\ school_name = "" /\ trace = << >>
    /\ jsonFile = NoFile /\ htmlFile = NoFile

InitView ==
    /\ NormIdle /\ BuildIdle
    /\ served \in ViewInputs
    /\ kst \in (0..23) \X (0..59)
    /\ choice = NoChoice
    /\ page = InitialPage

RunScript ==
    /\ page = InitialPage
    /\ choice' = Render(served, kst).choice
    /\ page' = Render(served, kst).page
    /\ UNCHANGED << served, kst, normVars, buildVars >>

NextView == RunScript

SpecView == InitView /\ [][NextView]_vars

(***************************************************************************)
(* clean_items as a function of its input.                                 *)
(***************************************************************************)
MaxFrags == 5

\* raw strings are built from these pieces
Frags ==
    { << "(" >>, << ")" >>, << "1" >>, << "." >>, << "<" >>, << ">" >>, BR,
      << "b" >>, << " " >>, << NL >> }

RECURSIVE Concat(_)
Concat(fs) == IF fs = << >> THEN << >> ELSE Head(fs) \o Concat(Tail(fs))

RawInputs == { Concat(fs) : fs \in UNION { [1..n -> Frags] : n \in 0..MaxFrags } }

InitClean ==
    /\ BuildIdle /\ ViewIdle
    /\ raw \in RawInputs
    /\ out = [done |-> FALSE, lines |-> << >>]
    /\ out2 = [done |-> FALSE, lines |-> << >>]

Clean ==
    /\ ~out.done
    /\ out' = [done |-> TRUE, lines |-> clean_items(raw)]
    /\ UNCHANGED << raw, out2, buildVars, viewVars >>

Reclean ==
    /\ out.done /\ ~out2.done
    /\ out2' = [done |-> TRUE, lines |-> clean_items(JoinLines(out.lines))]
    /\ UNCHANGED << raw, out, buildVars, viewVars >>

NextClean == Clean \/ Reclean

SpecClean == InitClean /\ [][NextClean]_vars

(***************************************************************************)
(* Properties                                                              *)
(***************************************************************************)
Minutes(k) == k[1] * 60 + k[2]

\* the time buckets as the specification tabulates them: <<day, slot, label>>
Bucket(m) ==
    IF m < 540 THEN << "today", "1", "breakfast" >>
    ELSE IF m < 780 THEN << "today", "2", "lunch" >>
    ELSE IF m < 1140 THEN << "today", "3", "dinner" >>
    ELSE << "tomorrow", "1", "tomorrow breakfast" >>

\* C1: for every minute m of the day in [0, 1440) decideSlot returns the one
\* choice of m's bucket: (today, 1, breakfast) below 540, (today, 2, lunch)
\* from 540 below 780, (today, 3, dinner) from 780 below 1140, and (tomorrow,
\* 1, tomorrow breakfast) from 1140 on, with that day's date.
C1_DecideSlotBuckets ==
    choice # NoChoice =>
        /\ Minutes(kst) \in 0..1439
        /\ << choice.day, choice.code, choice.label >> = Bucket(Minutes(kst))
        /\ choice.ymd = DateIn(DayOf(MealsOf(served.data), choice.day))
        /\ (Minutes(kst) = 539 => choice.label = "breakfast")
        /\ (Minutes(kst) \in {540, 779} => choice.label = "lunch")
        /\ (Minutes(kst) \in {780, 1139} => choice.label = "dinner")
        /\ (Minutes(kst) = 1140 => choice.label = "tomorrow breakfast")

C1_Witness ==
    /\ kst = << 19, 0 >>
    /\ choice.day = "tomorrow" /\ choice.code = "1" /\ choice.label = "tomorrow breakfast"

\* the kinds of failure of one HTTP outcome
NetworkFailure(r) == r.net = "error"
NonSuccessStatus(r) == r.net = "ok" /\ r.status \notin 200..299
ErrorStatus(r) == r.net = "ok" /\ r.status \in 400..599
Success(r) == r.net = "ok" /\ r.status \in 200..299
MalformedJson(r) == Success(r) /\ r.body.kind = "notjson"
HasRows(r) == Success(r) /\ r.body.kind = "obj" /\ r.body.info = "rows" /\ r.body.rows # << >>
\* a JSON value the lookup of line 53 or the reads of lines 56-57 cannot walk
BrokenShape(r) ==
    \/ Success(r) /\ r.body.kind = "notobj"
    \/ Success(r) /\ r.body.kind = "obj" /\ r.body.info \in {"short", "norow"}
    \/ HasRows(r) /\ (~r.body.rows[1].obj \/ r.body.rows[1].dish.t = "num")
\* a first row that is an object but carries no dish string
RowWithoutDish(r) ==
    HasRows(r) /\ r.body.rows[1].obj /\ r.body.rows[1].dish.t \in {"absent", "null"}
NoRows(r) ==
    \/ Success(r) /\ r.body.kind = "obj" /\ r.body.info \in {"absent", "nullrows"}
    \/ Success(r) /\ r.body.kind = "obj" /\ r.body.info = "rows" /\ r.body.rows = << >>

\* the call that met resp has returned, and ret[idx] is what it returned
JustFetched == resp # NoResp /\ pc # "aborted" /\ idx > 0 /\ Len(ret) = idx

\* C2 as claimed: fetch_one never raises, and a network error, a non-success
\* status, malformed or unexpectedly shaped JSON, and absent or empty rows
\* all return the same pair (empty list, empty school name).
C2_AllFailuresAlike ==
    /\ pc # "aborted"
    /\ (/\ JustFetched
        /\ \/ NetworkFailure(resp) \/ NonSuccessStatus(resp) \/ MalformedJson(resp)
           \/ BrokenShape(resp) \/ RowWithoutDish(resp) \/ NoRows(resp))
       => ret[idx] = Returned(<< >>, "")

\* C2 as amended: fetch_one never raises; a network error, an HTTP error
\* status (4xx or 5xx), a body that is not JSON or whose shape the lookups
\* cannot walk, and absent, null or empty rows all return (empty list, empty
\* school name); a first row that is an object without a dish string returns
\* the empty list together with that row's own school name.
C2_FailuresCollapse ==
    /\ pc # "aborted"
    /\ resp # NoResp => ~fetch_one(resp).raised
    /\ (/\ JustFetched
        /\ \/ NetworkFailure(resp) \/ ErrorStatus(resp) \/ MalformedJson(resp)
           \/ BrokenShape(resp) \/ NoRows(resp))
       => ret[idx] = Returned(<< >>, "")
    /\ (JustFetched /\ RowWithoutDish(resp))
       => ret[idx] = Returned(<< >>, resp.body.rows[1].school)

C2_Witness ==
    /\ JustFetched
    /\ BrokenShape(resp)
    /\ ret[idx] = Returned(<< >>, "")
    /\ idx > 1 /\ ret[idx - 1].items # << >>

\* the value under meals[day][key] of the n-th call
SlotOfCall(m, n) ==
    IF n = 4 THEN m.tomorrow.slots["1"]
    ELSE m.today.slots[<< "1", "2", "3" >>[n]]

JsonOpened == pc \in {"json_writing", "write_html", "html_writing", "done"}

\* C3: whatever the four fetches do, each of today's slots "1", "2", "3" and
\* tomorrow's slot "1" holds a list, never null and never a missing key: the
\* empty list for a fetch that failed or had no rows, and for every slot
\* exactly the list its own fetch returned; the snapshot written is the same.
C3_SlotsHoldOwnLists ==
    /\ \A n \in 1..idx :
        /\ SlotOfCall(meals, n).t = "list"
        /\ SlotOfCall(meals, n).v = ret[n].items
    /\ (/\ JustFetched
        /\ \/ NetworkFailure(resp) \/ ErrorStatus(resp) \/ MalformedJson(resp)
           \/ BrokenShape(resp) \/ NoRows(resp))
       => SlotOfCall(meals, idx) = List(<< >>)
    /\ JsonOpened =>
        /\ idx = 4
        /\ jsonFile.text.meals.t = "obj"
        /\ jsonFile.text.meals.today.t = "obj" /\ jsonFile.text.meals.tomorrow.t = "obj"
        /\ \A n \in 1..4 :
            /\ SlotOfCall(jsonFile.text.meals, n).t = "list"
            /\ SlotOfCall(jsonFile.text.meals, n).v = ret[n].items

C3_Witness ==
    /\ pc = "done"
    /\ ret[1].items = << >> /\ ret[2].items = << Chars("Rice"), Chars("Soup") >>
    /\ ret[3].items = << >> /\ ret[4].items = << Chars("Kimchi") >>
    /\ jsonFile.text.meals.today.slots["1"] = List(<< >>)
    /\ jsonFile.text.meals.today.slots["2"] = List(<< Chars("Rice"), Chars("Soup") >>)

\* the first non-empty school name among rs[n..], or the placeholder
RECURSIVE FirstSchool(_, _)
FirstSchool(rs, n) ==
    IF n > Len(rs) THEN "School"
    ELSE IF rs[n].school # "" THEN rs[n].school
    ELSE FirstSchool(rs, n + 1)

\* C4: after the four calls the school name is the first non-empty name the
\* calls returned, in call order; it is the placeholder exactly when no call
\* returned a name; it is never empty; the snapshot carries that name.
C4_FirstSchoolName ==
    (pc \in {"write_json"} \/ JsonOpened) =>
        /\ Len(ret) = 4
        /\ school_name = FirstSchool(ret, 1)
        /\ school_name # ""
        /\ (school_name = "School") <=> (\A n \in 1..4 : ret[n].school = "")
        /\ JsonOpened => jsonFile.text.school = school_name

C4_Witness ==
    /\ pc = "done"
    /\ ret[1].school = "" /\ ret[2].school = "B High" /\ ret[4].school = "A High"
    /\ jsonFile.text.school = "B High"

\* the operations of a whole run on date d, in the order the claim gives
RunTrace(d) ==
    << << "fetch", yyyymmdd(d), "1" >>, << "fetch", yyyymmdd(d), "2" >>,
       << "fetch", yyyymmdd(d), "3" >>, << "fetch", yyyymmdd(NextDay(d)), "1" >>,
       << "write", "meals.json" >>, << "write", "index.html" >> >>

IsPrefix(a, b) == Len(a) <= Len(b) /\ SubSeq(b, 1, Len(a)) = a

C5_InOrder ==
    /\ pc # "aborted"
    /\ IsPrefix(trace, RunTrace(now))
    /\ htmlFile.exists /\ htmlFile.len < FileChunks => jsonFile.len = FileChunks
    /\ pc \in {"html_writing", "done"} => jsonFile = WholeFile(SnapshotOf(now, ret))

C5_Completed ==
    /\ pc = "done"
    /\ trace = RunTrace(now)
    /\ jsonFile = WholeFile(SnapshotOf(now, ret))
    /\ htmlFile = WholeFile(HtmlText(school_name))

\* C5: every run makes exactly the four fetch calls (today,1), (today,2),
\* (today,3), (tomorrow,1) in that order, none repeated, then writes the
\* JSON file, then the HTML file, and ends having written both, whatever
\* the fetches met.
C5_RunCompletes == []C5_InOrder /\ <>[]C5_Completed

C5_Witness ==
    /\ C5_Completed
    /\ \A n \in 1..4 : ret[n] = Returned(<< >>, "")

\* 'YYYY' year 'MM' month 'DD' day of an eight-character date
KoreanDate(d) ==
    << d[1], d[2], d[3], d[4], "nyeon", " ", d[5], d[6], "wol", " ", d[7], d[8], "il" >>

\* the viewer was given a whole snapshot
LoadedSnapshot == served.net = "ok" /\ served.json

\* C8: a page that loads a snapshot the build wrote shows, at each time of
\* day, the label of the slot of that time, the chosen day's date as
\* 'YYYY year MM month DD day', and the no-menu message when the list at
\* snapshot[day][slot] is empty or missing, else exactly the dishes of that
\* list as list items in their order; never the failed-to-load message.
C8_PageShowsChosenSlot ==
    LoadedSnapshot =>
        LET b == Bucket(Minutes(kst))
            dy == IF b[1] = "today" THEN served.data.meals.today
                  ELSE served.data.meals.tomorrow
            lst == dy.slots[b[2]]
        IN  /\ page.slotLabel.label = b[3]
            /\ dy.date.t = "str" /\ Len(dy.date.v[1]) = 8
            /\ page.dateTitle = KoreanDate(dy.date.v[1])
            /\ page.content.kind # "error"
            /\ (lst.t = "absent" \/ lst.v = << >>) => page.content.kind = "empty"
            /\ (lst.t = "list" /\ lst.v # << >>) =>
                /\ page.content.kind = "list"
                /\ Len(page.content.items) = Len(lst.v)
                /\ \A i \in 1..Len(lst.v) :
                    page.content.items[i] = << "<li>" >> \o lst.v[i] \o << "</li>" >>

C8_Witness ==
    /\ LoadedSnapshot
    /\ kst = << 12, 30 >>
    /\ served.data.meals.today.date = Str(<< "2", "0", "2", "5", "0", "1", "0", "1" >>)
    /\ served.data.meals.today.slots["2"] = List(<< Chars("Rice"), Chars("Soup") >>)
    /\ page.slotLabel.label = "lunch"
    /\ page.dateTitle = << "2", "0", "2", "5", "nyeon", " ", "0", "1", "wol", " ", "0", "1", "il" >>
    /\ page.content = [kind |-> "list",
                       items |-> << << "<li>", "R", "i", "c", "e", "</li>" >>,
                                    << "<li>", "S", "o", "u", "p", "</li>" >> >>]

C8_AllFailedWitness ==
    /\ LoadedSnapshot
    /\ pc = "done" /\ \A n \in 1..4 : ret[n] = Returned(<< >>, "")
    /\ served.data = jsonFile.text
    /\ page.content.kind = "empty"

\* C9: the failed-to-load message is shown if and only if the snapshot cannot
\* be fetched or cannot be parsed; every snapshot that parses, also one
\* without a day record, a date or a slot list, gets the normal layout.
C9_ErrorOnlyOnLoadFailure ==
    page # InitialPage =>
        /\ page.content.kind \in {"error", "empty", "list"}
        /\ (page.content.kind = "error") <=> (served.net = "error" \/ ~served.json)

\* C10: a viewer that reads meals.json at any moment of a build obtains a
\* whole snapshot, the previous one or the new one, never an empty or
\* cut-off file.
C10_ReadsWholeSnapshot ==
    (served.net = "ok" /\ served.status = 200) =>
        /\ served.json
        /\ \/ served.data = PrevSnapshot
           \/ Len(ret) = 4 /\ served.data = SnapshotOf(now, ret)

\* a parenthesized group of dot-separated digits, as "(1.)" or "(1.2.5.)"
HasAllergenGroup(l) ==
    \E i \in 1..Len(l), j \in 1..Len(l) :
        /\ i + 1 < j
        /\ l[i] = "(" /\ l[j] = ")"
        /\ l[i + 1] \in Digits
        /\ \A k \in (i + 1)..(j - 1) : l[k] \in Digits \cup {"."}
        /\ \A k \in (i + 1)..(j - 2) : ~(l[k] = "." /\ l[k + 1] = ".")

\* a "<" followed later by a ">"
HasTag(l) == \E i \in 1..Len(l), j \in 1..Len(l) : i < j /\ l[i] = "<" /\ l[j] = ">"

\* C6: no line of clean_items' output holds a parenthesized group of
\* dot-separated digits, and none holds an HTML tag, for every raw string,
\* nested and interleaved groups and tags included.
C6_NoGroupsNoTags ==
    out.done => \A n \in 1..Len(out.lines) :
        ~HasAllergenGroup(out.lines[n]) /\ ~HasTag(out.lines[n])

\* C7: clean_items applied to its own output, joined with newlines, returns
\* the same lines in the same order.
C7_Idempotent == out2.done => out2.lines = out.lines

====
